---- MODULE Spec2Model ----
(***************************************************************************)
(* Model of the roocode-mcp-server bridge:                                 *)
(*   - MCPServer (src/src/server.ts): the session map `transports`, the    *)
(*     POST /mcp and GET /mcp handlers, stop();                            *)
(*   - EventStreamingServer (src/unnamed/part_006, lines 19-234): the      *)
(*     collaborator event handler, forwardEventToClients, the task state   *)
(*     cache with its purge timers, getTaskState and dispose;              *)
(*   - the roocode_poll_task_state tool over getTaskState, as the design   *)
(*     describes it (its code is not among the sources).                   *)
(*   - the extension (src/unnamed/part_006, lines 236-501): the module    *)
(*     variables mcpServer and serverEnabled under toggleServerState, the  *)
(*     configuration-change restart and deactivate;                        *)
(*   - the SSE event forwarder (src/src/tools/event-streaming-server.ts):  *)
(*     its client table under connect, close, forward and dispose.         *)
(* JavaScript values are modelled as records [obj, s]: a string "x" is     *)
(* [obj |-> FALSE, s |-> "x"], undefined (and the empty string, equally    *)
(* falsy) is [obj |-> FALSE, s |-> ""], and an object whose taskId field   *)
(* is t is [obj |-> TRUE, s |-> t] (s = "" when the field is missing).     *)
(***************************************************************************)
EXTENDS Integers, Sequences, FiniteSets, TLC

VARIABLES
    taskStateCache, \* EventStreamingServer.taskStateCache: records in Map insertion order
    timers,         \* pending setTimeout purge callbacks, in creation order
    now,            \* the clock (ms) read by new Date() and by the timer queue
    transports,     \* MCPServer.transports: session id -> channel
    channels,       \* every StreamableHTTPServerTransport constructed so far
    connected,      \* the transport the shared McpServer is connected to (0: none)
    inflight,       \* POST handlers suspended at `await this.server.connect(transport)`
    lastResp,       \* the response written by the handler that ran last
    delivered,      \* per channel, the notifications handed to its send()
    stopPhase,      \* position of MCPServer.stop(): "running", "closing" (the race
                    \* is pending), "closingTransports" (in the loop), "stopped"
    emitted,        \* number of message events the collaborator has emitted
    terminalSince,  \* history: per task, when its record entered its terminal status
    handlers,       \* handler sets this instance has subscribed on the collaborator
    lastPoll,       \* the result of the poll made in this step (NoPoll otherwise)
    lastStatusEvent, \* history: per task, the last status event emitted for it
    extension,      \* per capability client, whether its `extension` handle is set
    rooCode,        \* the collaborator as vscode.extensions shows it
    lastTool,       \* the outcome of the tool call made in this step (NoTool otherwise)
    initialized,    \* history: roocode_initialize has reported success
    startOutcome,   \* how start() of the newest instance has settled
    serverEnabled,  \* extension.ts: let serverEnabled
    mcpServer,      \* extension.ts: let mcpServer (0: undefined, else an index
                    \* of `instances`)
    instances,      \* every MCPServer the extension has constructed
    calls,          \* handlers of the extension suspended at an await
    deactivated,    \* deactivate() has been called
    eventClients,   \* the SSE forwarder's client table (the ids it holds)
    sseClients,     \* every client that has requested GET /events: what became
                    \* of its connection and the events written to it
    sseForwarded,   \* number of events the SSE forwarder has been handed
    stopCall        \* stop() of this instance: how its Promise.race settled,
                    \* how the call settled, and how a call made while the
                    \* HTTP server no longer listens settled

vars == <<taskStateCache, timers, now, transports, channels, connected,
          inflight, lastResp, delivered, stopPhase, emitted, terminalSince,
          handlers, lastPoll, lastStatusEvent, extension, rooCode, lastTool,
          initialized, startOutcome, stopCall, serverEnabled, mcpServer,
          instances, calls, deactivated, eventClients, sseClients,
          sseForwarded>>

cacheVars == <<taskStateCache, timers>>
sessionVars == <<transports, channels, connected, inflight, lastResp, stopPhase>>
clientVars == <<extension, rooCode, lastTool, initialized>>
extVars == <<serverEnabled, mcpServer, instances, calls, deactivated>>
sseVars == <<eventClients, sseClients, sseForwarded>>
hostVars == <<clientVars, startOutcome, stopCall, extVars, sseVars>>
serverVars == <<cacheVars, sessionVars, now, delivered, emitted, terminalSince,
                handlers, lastPoll, lastStatusEvent, startOutcome, stopCall,
                extVars, sseVars>>
bridgeVars == <<cacheVars, sessionVars, now, delivered, emitted, terminalSince,
                handlers, lastPoll, lastStatusEvent, startOutcome, stopCall,
                clientVars>>

-----------------------------------------------------------------------------
(* Bounds of the model *)

MaxTime == 45000
TickMs == 15000
MaxTimers == 2
MaxCacheMsgs == 1
MaxChannels == 2
MaxUuid == 2
MaxDelivered == 1
MaxHistMsgs == 52
MaxOrderMsgs == 3
MaxNotifyMsgs == 3
MaxStarts == 2
MaxInstances == 4
MaxCalls == 2
MaxSseClients == 2
MaxSseEvents == 2

(* Program constants *)

MAX_MESSAGES_PER_TASK == 50
RetentionMs == 30000
RECENT_MESSAGES == 5

-----------------------------------------------------------------------------
(* JavaScript values *)

Str(s) == [obj |-> FALSE, s |-> s]
Obj(t) == [obj |-> TRUE, s |-> t]
Undefined == Str("")
Truthy(v) == v.obj \/ v.s # ""

\* a || b
OrElse(a, b) == IF Truthy(a) THEN a ELSE b

\* v?.taskId : the taskId field of an object, undefined for a string or undefined
TaskIdField(v) == IF v.obj THEN Str(v.s) ELSE Undefined

-----------------------------------------------------------------------------
(* Task state cache: EventStreamingServer.updateTaskStateCache *)

TableEvents == {"taskCreated", "taskStarted", "taskActive", "taskInteractive",
                "taskIdle", "taskCompleted", "taskAborted", "taskResumable"}

eventsToForward == TableEvents \cup
    {"taskFocused", "taskUnfocused", "message", "taskModeSwitched",
     "taskTokenUsageUpdated", "taskToolFailed"}

\* const taskId = data[0]?.taskId || data[0]
ExtractTaskId(data) == OrElse(TaskIdField(data[1]), data[1])

\* Map.has / Map.get / Map.set / Map.delete on the insertion-ordered record list
CacheKeys(cache) == {cache[i].taskId : i \in 1..Len(cache)}
CacheHas(cache, k) == k \in CacheKeys(cache)
CacheIndex(cache, k) == CHOOSE i \in 1..Len(cache) : cache[i].taskId = k
CacheGet(cache, k) == cache[CacheIndex(cache, k)]

CacheSet(cache, k, rec) ==
    IF CacheHas(cache, k)
    THEN [cache EXCEPT ![CacheIndex(cache, k)] = rec]
    ELSE Append(cache, rec)

CacheDelete(cache, k) ==
    SelectSeq(cache, LAMBDA r : r.taskId # k)

\* the switch with the break of case 'taskIdle' missing: it falls through
StatusAfterFallThrough(eventName, old) ==
    CASE eventName = "taskCreated"     -> "created"
      [] eventName = "taskStarted"     -> "started"
      [] eventName = "taskActive"      -> "active"
      [] eventName = "taskInteractive" -> "interactive"
      [] eventName = "taskIdle"        -> "completed"
      [] eventName = "taskCompleted"   -> "completed"
      [] eventName = "taskAborted"     -> "aborted"
      [] eventName = "taskResumable"   -> "resumable"
      [] OTHER                         -> old

\* a switch that sets the status of a record once and keeps it afterwards
StatusAfterFirstWins(eventName, old) ==
    IF old # "unknown" THEN old
    ELSE CASE eventName = "taskCreated"     -> "created"
           [] eventName = "taskStarted"     -> "started"
           [] eventName = "taskActive"      -> "active"
           [] eventName = "taskInteractive" -> "interactive"
           [] eventName = "taskIdle"        -> "idle"
           [] eventName = "taskCompleted"   -> "completed"
           [] eventName = "taskAborted"     -> "aborted"
           [] eventName = "taskResumable"   -> "resumable"
           [] OTHER                         -> old

\* a switch with a default branch that resets the status
StatusAfterResetting(eventName, old) ==
    CASE eventName = "taskCreated"     -> "created"
      [] eventName = "taskStarted"     -> "started"
      [] eventName = "taskActive"      -> "active"
      [] eventName = "taskInteractive" -> "interactive"
      [] eventName = "taskIdle"        -> "idle"
      [] eventName = "taskCompleted"   -> "completed"
      [] eventName = "taskAborted"     -> "aborted"
      [] eventName = "taskResumable"   -> "resumable"
      [] OTHER                         -> "unknown"

\* the switch on eventName: the status the event leaves in the record
StatusAfter(eventName, old) ==
    CASE eventName = "taskCreated"     -> "created"
      [] eventName = "taskStarted"     -> "started"
      [] eventName = "taskActive"      -> "active"
      [] eventName = "taskInteractive" -> "interactive"
      [] eventName = "taskIdle"        -> "idle"
      [] eventName = "taskCompleted"   -> "completed"
      [] eventName = "taskAborted"     -> "aborted"
      [] eventName = "taskResumable"   -> "resumable"
      [] OTHER                         -> old

\* slice(0, n): keeps the oldest entries instead of the newest
SliceFirst(s, n) == IF Len(s) > n THEN SubSeq(s, 1, n) ELSE s

\* taskState.messages.slice(-MAX_MESSAGES_PER_TASK)
SliceLast(s, n) == IF Len(s) > n THEN SubSeq(s, Len(s) - n + 1, Len(s)) ELSE s

\* case 'message' with unshift in place of push: the newest entry comes first
MessagesAfterUnshift(eventName, msgs, data, t) ==
    IF eventName = "message"
    THEN LET pushed == <<[timestamp |-> t, content |-> OrElse(data[2], data[1])]>> \o msgs
         IN  IF Len(pushed) > MAX_MESSAGES_PER_TASK
             THEN SliceLast(pushed, MAX_MESSAGES_PER_TASK)
             ELSE pushed
    ELSE msgs

\* case 'message' storing the first argument in place of the message
MessagesAfterFirstArg(eventName, msgs, data, t) ==
    IF eventName = "message"
    THEN LET pushed == Append(msgs, [timestamp |-> t, content |-> data[1]])
         IN  IF Len(pushed) > MAX_MESSAGES_PER_TASK
             THEN SliceLast(pushed, MAX_MESSAGES_PER_TASK)
             ELSE pushed
    ELSE msgs

\* case 'message': push, then trim to the cap
MessagesAfter(eventName, msgs, data, t) ==
    IF eventName = "message"
    THEN LET pushed == Append(msgs, [timestamp |-> t, content |-> OrElse(data[2], data[1])])
         IN  IF Len(pushed) > MAX_MESSAGES_PER_TASK
             THEN SliceLast(pushed, MAX_MESSAGES_PER_TASK)
             ELSE pushed
    ELSE msgs

\* setTimeout(() => this.taskStateCache.delete(taskId), 30000) in the two terminal cases
TimersAfter(eventName, tms, taskId, t) ==
    IF eventName \in {"taskCompleted", "taskAborted"}
    THEN Append(tms, [taskId |-> taskId, due |-> t + RetentionMs])
    ELSE tms

\* a record inserted without looking the id up first
CreateAlways(cache, taskId, t) ==
    Append(cache, [taskId |-> taskId, status |-> "unknown", lastUpdate |-> t,
                   messages |-> <<>>])

\* a record that is inserted as active
GetOrCreateActive(cache, taskId, t) ==
    IF CacheHas(cache, taskId)
    THEN cache
    ELSE CacheSet(cache, taskId,
                  [taskId |-> taskId, status |-> "active", lastUpdate |-> t,
                   messages |-> <<>>])

\* get or create the record of taskId
GetOrCreate(cache, taskId, t) ==
    IF CacheHas(cache, taskId)
    THEN cache
    ELSE CacheSet(cache, taskId,
                  [taskId |-> taskId, status |-> "unknown", lastUpdate |-> t,
                   messages |-> <<>>])

\* the whole of updateTaskStateCache: the cache and the timer queue it leaves
UpdateTaskStateCache(cache, tms, t, eventName, data) ==
    LET taskId == ExtractTaskId(data) IN
    IF ~Truthy(taskId)
    THEN [cache |-> cache, timers |-> tms]
    ELSE LET c1  == GetOrCreate(cache, taskId, t)
             old == CacheGet(c1, taskId)
             new == [old EXCEPT !.lastUpdate = t,
                                !.status = StatusAfter(eventName, old.status),
                                !.messages = MessagesAfter(eventName, old.messages, data, t)]
         IN  [cache |-> CacheSet(c1, taskId, new),
              timers |-> TimersAfter(eventName, tms, taskId, t)]

\* History of the cache: the time since which the record of each task has
\* been completed or aborted without interruption, -1 when there is no such
\* record
Terminal(status) == status \in {"completed", "aborted"}
TerminalIn(cache, k) == CacheHas(cache, k) /\ Terminal(CacheGet(cache, k).status)
TerminalSinceAfter(ts, cache, cache2, t) ==
    [k \in DOMAIN ts |->
        IF TerminalIn(cache2, k)
        THEN IF TerminalIn(cache, k) THEN ts[k] ELSE t
        ELSE -1]

\* History of the events: per task, the status event emitted last for it
\* (`ever`) and the one emitted last since its present record was inserted
\* (`current`); "" when there is none
NoStatusEvent == [ever |-> "", current |-> ""]
LastStatusEventAfter(ls, cache2, eventName, taskId) ==
    [k \in DOMAIN ls |->
        LET e == IF k = taskId /\ eventName \in TableEvents
                 THEN [ever |-> eventName, current |-> eventName]
                 ELSE ls[k]
        IN  IF CacheHas(cache2, k) THEN e ELSE [e EXCEPT !.current = ""]]

\* getTaskState(taskId): the record, or null
NoRecord == [taskId |-> Undefined, status |-> "null", lastUpdate |-> 0, messages |-> <<>>]

\* a lookup that answers an unknown id with a default record
GetTaskStateDefault(cache, taskId) ==
    IF CacheHas(cache, taskId) THEN CacheGet(cache, taskId)
    ELSE [taskId |-> taskId, status |-> "unknown", lastUpdate |-> 0, messages |-> <<>>]

GetTaskState(cache, taskId) ==
    IF CacheHas(cache, taskId) THEN CacheGet(cache, taskId) ELSE NoRecord

\* a table read that leaves out the record inserted first
GetAllTaskStatesTail(cache) == IF cache = <<>> THEN cache ELSE Tail(cache)

\* getTaskState(): no task id, the table itself
GetAllTaskStates(cache) == cache

-----------------------------------------------------------------------------
(* Polling query: the roocode_poll_task_state tool over getTaskState *)

\* the messages a poll shows of a record: the most recent RECENT_MESSAGES
RecentMessages(msgs) == SliceLast(msgs, RECENT_MESSAGES)

\* the read model of one record
PollView(r) == [taskId |-> r.taskId, status |-> r.status,
                lastUpdate |-> r.lastUpdate,
                recentMessages |-> RecentMessages(r.messages)]

NoPoll == [kind |-> "none", tasks |-> <<>>]

\* the result of the tool: the record asked for or "notFound", every record
\* or "empty" when no id is given
PollTaskState(cache, taskId) ==
    IF Truthy(taskId)
    THEN LET r == GetTaskState(cache, taskId)
         IN  IF r = NoRecord
             THEN [kind |-> "notFound", tasks |-> <<>>]
             ELSE [kind |-> "task", tasks |-> <<PollView(r)>>]
    ELSE LET all == GetAllTaskStates(cache)
         IN  IF Len(all) = 0
             THEN [kind |-> "empty", tasks |-> <<>>]
             ELSE [kind |-> "tasks", tasks |-> [i \in 1..Len(all) |-> PollView(all[i])]]

-----------------------------------------------------------------------------
(* Event forwarding: forwardEventToClients -> McpServer.sendLoggingMessage *)

\* The channels whose send() receives a notification. forwardEventToClients
\* makes one sendLoggingMessage call on the McpServer that server.ts shares
\* among all requests; that server (SDK Protocol) keeps a single transport,
\* the one connect() was last called with, and the session map is not read.
NotifyTargets(conn, reg) == IF conn = 0 THEN {} ELSE {conn}

\* a forwarder that puts the newest notification ahead of the waiting ones
DeliveredAfterUnshift(dl, conn, reg, ev) ==
    [c \in DOMAIN dl |->
        IF c \in NotifyTargets(conn, reg) THEN <<ev>> \o dl[c] ELSE dl[c]]

DeliveredAfter(dl, conn, reg, ev) ==
    [c \in DOMAIN dl |->
        IF c \in NotifyTargets(conn, reg) THEN Append(dl[c], ev) ELSE dl[c]]

Registered == {transports[s] : s \in DOMAIN transports}

\* sendLoggingMessage on the shared McpServer: the SDK throws "Not connected"
\* when the server has no transport, else it hands the notification to send()
ForwardOutcome(conn) == IF conn = 0 THEN "failed" ELSE "sent"

\* a handler that awaits the forward outside any try: a failed delivery
\* ends the handler before it reaches updateTaskStateCache
HandlerContinuesOnSuccess(outcome) == outcome = "sent"

\* forwardEventToClients catches the failure of sendLoggingMessage and the
\* handler does not await it: the handler goes on whatever the outcome
HandlerContinues(outcome) == TRUE

\* dispose(): it logs and releases nothing
Dispose(h) == h

\* the handler installed by eventEmitter.on(eventName, ...): forward, then cache
EmitBody(eventName, data) ==
    /\ handlers > 0
    /\ stopPhase # "closingTransports"
    /\ eventName \in eventsToForward
    /\ eventName \in {"taskCompleted", "taskAborted"} => Len(timers) < MaxTimers
    /\ delivered' = DeliveredAfter(delivered, connected, Registered,
                                   [event |-> eventName, data |-> data])
    /\ LET r == IF HandlerContinues(ForwardOutcome(connected))
                THEN UpdateTaskStateCache(taskStateCache, timers, now, eventName, data)
                ELSE [cache |-> taskStateCache, timers |-> timers]
       IN  /\ taskStateCache' = r.cache
           /\ timers' = r.timers
           /\ terminalSince' = TerminalSinceAfter(terminalSince, taskStateCache, r.cache, now)
           /\ lastStatusEvent' = LastStatusEventAfter(lastStatusEvent, r.cache, eventName,
                                                      ExtractTaskId(data))
    /\ lastPoll' = NoPoll
    /\ UNCHANGED hostVars
    /\ UNCHANGED <<now, sessionVars, handlers>>

Emit(eventName, data) ==
    /\ \A c \in NotifyTargets(connected, Registered) : Len(delivered[c]) < MaxDelivered
    /\ EmitBody(eventName, data)
    /\ UNCHANGED emitted

\* the setTimeout callback: this.taskStateCache.delete(taskId)
Purge ==
    /\ stopPhase # "closingTransports"
    /\ timers # <<>>
    /\ now >= Head(timers).due
    /\ taskStateCache' = CacheDelete(taskStateCache, Head(timers).taskId)
    /\ timers' = Tail(timers)
    /\ terminalSince' = TerminalSinceAfter(terminalSince, taskStateCache,
                                           taskStateCache', now)
    /\ lastStatusEvent' = LastStatusEventAfter(lastStatusEvent, taskStateCache',
                                               "", Undefined)
    /\ lastPoll' = NoPoll
    /\ UNCHANGED hostVars
    /\ UNCHANGED <<now, delivered, sessionVars, emitted, handlers>>

\* time passes; a timer that is due runs before the clock moves on
Tick ==
    /\ stopPhase # "closingTransports"
    /\ now + TickMs <= MaxTime
    /\ timers # <<>> => now < Head(timers).due
    /\ now' = now + TickMs
    /\ lastPoll' = NoPoll
    /\ UNCHANGED hostVars
    /\ UNCHANGED <<cacheVars, delivered, sessionVars, emitted, terminalSince,
                   handlers, lastStatusEvent>>

\* a call of the roocode_poll_task_state tool: it reads the cache through
\* getTaskState and changes nothing
Poll(taskId) ==
    /\ stopPhase # "closingTransports"
    /\ lastPoll' = PollTaskState(taskStateCache, taskId)
    /\ UNCHANGED hostVars
    /\ UNCHANGED <<cacheVars, now, delivered, sessionVars, emitted, terminalSince,
                   handlers, lastStatusEvent>>

\* a test event that is also ingested, as a collaborator's event is
SendTestEventIngesting(eventName, data) ==
    /\ \A c \in NotifyTargets(connected, Registered) : Len(delivered[c]) < MaxDelivered
    /\ EmitBody(eventName, data)
    /\ UNCHANGED emitted

\* sendTestEvent(eventName, data): await this.forwardEventToClients(...) and
\* nothing else
SendTestEvent(eventName, data) ==
    /\ stopPhase # "closingTransports"
    /\ \A c \in NotifyTargets(connected, Registered) : Len(delivered[c]) < MaxDelivered
    /\ delivered' = DeliveredAfter(delivered, connected, Registered,
                                   [event |-> eventName, data |-> data])
    /\ lastPoll' = NoPoll
    /\ UNCHANGED hostVars
    /\ UNCHANGED <<cacheVars, now, sessionVars, emitted, terminalSince, handlers,
                   lastStatusEvent>>

\* getStats(): { rooCodeExtensionActive, cachedTasks: this.taskStateCache.size,
\* timestamp }
Stats(cache, roo, t) ==
    [kind |-> "stats", tasks |-> <<>>, cachedTasks |-> Len(cache),
     rooCodeExtensionActive |-> roo.isActive, timestamp |-> t]

\* a call of getStats()
GetStats ==
    /\ stopPhase # "closingTransports"
    /\ lastPoll' = Stats(taskStateCache, rooCode, now)
    /\ UNCHANGED hostVars
    /\ UNCHANGED <<cacheVars, now, delivered, sessionVars, emitted, terminalSince,
                   handlers, lastStatusEvent>>

-----------------------------------------------------------------------------
(* Session registry and transport router: MCPServer.setupRoutes, POST /mcp *)

\* Session ids are drawn from Uuids; 0 stands for "no mcp-session-id header"
\* and for a transport whose sessionId is still undefined.
Uuids == 1..MaxUuid

\* the ids issued so far: the sessionId of every transport ever initialized
Issued == {channels[c].sessionId : c \in 1..Len(channels)} \ {0}

\* a generator that may repeat an id it has issued
RandomUUIDRepeating(issued) == Uuids

\* sessionIdGenerator: () => randomUUID()
RandomUUID(issued) == Uuids \ issued

\* the chain without its last branch: an unknown id is served like no id
PostRouteNoReject(sessionId, map) ==
    IF sessionId # 0 /\ sessionId \in DOMAIN map THEN "reuse" ELSE "new"

\* the if / else-if / else chain that picks the transport of a POST
PostRoute(sessionId, map) ==
    IF sessionId # 0 /\ sessionId \in DOMAIN map THEN "reuse"
    ELSE IF sessionId = 0 THEN "new"
    ELSE "invalid"

\* Map.set
MapSet(map, k, v) == [x \in DOMAIN map \cup {k} |-> IF x = k THEN v ELSE map[x]]
\* Map.delete
MapDelete(map, k) == [x \in DOMAIN map \ {k} |-> map[x]]

\* the callback closing over a transport variable shared by all handlers:
\* it registers the transport constructed last
OnSessionInitializedShared(map, sid, ch) == MapSet(map, sid, connected)

\* onsessioninitialized: (sid) => { this.transports.set(sid, transport) }
OnSessionInitialized(map, sid, ch) == MapSet(map, sid, ch)

\* an onclose that empties the session map
OnCloseClearing(map, sid) == <<>>

\* transport.onclose: remove the transport's own session if it is registered
OnClose(map, sid) == IF sid # 0 /\ sid \in DOMAIN map THEN MapDelete(map, sid) ELSE map

Response(status, code, ch) == [status |-> status, code |-> code, ch |-> ch]
NoResponse == Response(0, 0, 0)

\* stop() has not been called on this instance
NoStopCall == [race |-> "none", result |-> "none", notRunning |-> "none"]

\* a transport that opens a session for whatever request it is handed first
HandlePostAnyBody(ch, hdr, body, sid) ==
    /\ channels' = [channels EXCEPT ![ch].sessionId = sid,
                                    ![ch].initialized = TRUE]
    /\ transports' = OnSessionInitialized(transports, sid, ch)
    /\ lastResp' = Response(200, 0, ch)

\* transport.handleRequest(req, res, req.body) for a POST on channel ch that
\* carries session header `hdr` and a body of kind `body`; sid is the id the
\* generator returns if the transport asks for one. The transport (SDK
\* StreamableHTTPServerTransport in session mode) initializes once: an
\* initialize request sets its sessionId and calls onsessioninitialized, a
\* second one is refused; any other request needs the transport's own id in
\* the header. The ch field of the response names the channel the request
\* was handed to.
HandlePost(ch, hdr, body, sid) ==
    LET t == channels[ch] IN
    IF body = "initialize"
    THEN IF t.initialized /\ t.sessionId # 0
         THEN /\ lastResp' = Response(400, -32600, ch)
              /\ UNCHANGED <<channels, transports>>
         ELSE /\ channels' = [channels EXCEPT ![ch].sessionId = sid,
                                              ![ch].initialized = TRUE]
              /\ transports' = OnSessionInitialized(transports, sid, ch)
              /\ lastResp' = Response(200, 0, ch)
    ELSE /\ lastResp' =
              IF ~t.initialized THEN Response(400, -32000, ch)
              ELSE IF hdr = 0 THEN Response(400, -32000, ch)
              ELSE IF hdr # t.sessionId THEN Response(404, -32001, ch)
              ELSE Response(200, 0, ch)
         /\ UNCHANGED <<channels, transports>>

\* the handler of app.post('/mcp') up to its first suspension; it reads
\* nothing that tells it whether stop() has begun
PostHandler(sessionId, body) ==
    /\ LET route == PostRoute(sessionId, transports) IN
       CASE route = "reuse" ->
              /\ \E sid \in RandomUUID(Issued) \cup {0} :
                    HandlePost(transports[sessionId], sessionId, body, sid)
              /\ UNCHANGED <<connected, inflight, delivered>>
         [] route = "new" ->
              /\ Len(channels) < MaxChannels
              /\ channels' = Append(channels,
                    [sessionId |-> 0, initialized |-> FALSE, closed |-> FALSE,
                     closeAsked |-> FALSE, stream |-> FALSE])
              /\ delivered' = Append(delivered, <<>>)
              /\ connected' = Len(channels) + 1
              /\ inflight' = inflight \cup {[ch |-> Len(channels) + 1, body |-> body]}
              /\ UNCHANGED <<transports, lastResp>>
         [] route = "invalid" ->
              /\ lastResp' = Response(400, -32000, 0)
              /\ UNCHANGED <<transports, channels, connected, inflight, delivered>>
    /\ lastPoll' = NoPoll
    /\ UNCHANGED hostVars
    /\ UNCHANGED <<cacheVars, now, stopPhase, emitted, terminalSince, handlers,
                   lastStatusEvent>>

\* a POST arrives on the listening server and its handler runs
PostArrive(sessionId, body) ==
    /\ stopPhase = "running"
    /\ PostHandler(sessionId, body)

\* a POST whose connection was accepted before httpServer.close(): close()
\* refuses new connections only, so the request is still routed to the
\* handler while stop() waits in its race
PostArriveClosing(sessionId, body) ==
    /\ stopPhase = "closing"
    /\ PostHandler(sessionId, body)

\* the handler resumes after `await this.server.connect(transport)`
PostResume(h) ==
    /\ stopPhase # "closingTransports"
    /\ h \in inflight
    /\ inflight' = inflight \ {h}
    /\ IF h.body = "initialize"
       THEN \E sid \in RandomUUID(Issued) : HandlePost(h.ch, 0, h.body, sid)
       ELSE HandlePost(h.ch, 0, h.body, 0)
    /\ lastPoll' = NoPoll
    /\ UNCHANGED hostVars
    /\ UNCHANGED <<cacheVars, now, connected, delivered, stopPhase, emitted,
                   terminalSince, handlers, lastStatusEvent>>

\* a lookup that falls back to some registered channel for an id it does
\* not know
GetTargetFallback(sessionId, map) ==
    IF sessionId # 0 /\ sessionId \in DOMAIN map THEN map[sessionId]
    ELSE IF DOMAIN map # {} THEN map[CHOOSE s \in DOMAIN map : TRUE]
    ELSE 0

\* GET /mcp: the channel the stream request is handed to, 0 when the guard
\* `!sessionId || !this.transports.has(sessionId)` rejects it
GetTarget(sessionId, map) ==
    IF sessionId = 0 \/ sessionId \notin DOMAIN map THEN 0 ELSE map[sessionId]

\* a GET arrives: rejected with 400, or handed to the transport of the
\* session, which attaches the standalone notification stream unless it has
\* one already (409)
GetArrive(sessionId) ==
    /\ stopPhase = "running"
    /\ LET ch == GetTarget(sessionId, transports) IN
       IF ch = 0
       THEN /\ lastResp' = Response(400, 0, 0)
            /\ UNCHANGED channels
       ELSE IF channels[ch].stream
            THEN /\ lastResp' = Response(409, -32000, ch)
                 /\ UNCHANGED channels
            ELSE /\ lastResp' = Response(200, 0, ch)
                 /\ channels' = [channels EXCEPT ![ch].stream = TRUE]
    /\ lastPoll' = NoPoll
    /\ UNCHANGED hostVars
    /\ UNCHANGED <<cacheVars, now, transports, connected, inflight, delivered,
                   stopPhase, emitted, terminalSince, handlers, lastStatusEvent>>

\* stop(): httpServer.close() has been called, the race is pending
StopBegin ==
    /\ stopPhase = "running"
    /\ stopPhase' = "closing"
    /\ stopCall' = [stopCall EXCEPT !.race = "pending", !.result = "pending"]
    /\ lastPoll' = NoPoll
    /\ UNCHANGED <<clientVars, startOutcome, extVars, sseVars>>
    /\ UNCHANGED <<cacheVars, now, transports, channels, connected, inflight,
                   lastResp, delivered, emitted, terminalSince, handlers,
                   lastStatusEvent>>

\* no request is being handled and no notification stream is open: the
\* condition under which a closing http.Server emits 'close'
Drained(chs, infl) ==
    /\ infl = {}
    /\ \A c \in 1..Len(chs) : ~(chs[c].stream /\ ~chs[c].closed)

\* a race whose timeout branch settles only once the server has drained
TimeoutMayFireDrainedOnly(chs, infl) == Drained(chs, infl)

\* the timeout branch of the race: setTimeout(..., forceTimeout) is armed
\* when stop() is called and its callback resolves whatever the server does
TimeoutMayFire(chs, infl) == TRUE

\* the callback of httpServer.close() runs without error: the first branch
\* of the race resolves
HttpCloseCallback ==
    /\ stopPhase = "closing"
    /\ stopCall.race = "pending"
    /\ Drained(channels, inflight)
    /\ stopCall' = [stopCall EXCEPT !.race = "closed"]
    /\ lastPoll' = NoPoll
    /\ UNCHANGED <<clientVars, startOutcome, extVars, sseVars>>
    /\ UNCHANGED <<cacheVars, now, sessionVars, delivered, emitted,
                   terminalSince, handlers, lastStatusEvent>>

\* forceTimeout has elapsed before the close callback ran: the second
\* branch of the race resolves
ForceTimeout ==
    /\ stopPhase = "closing"
    /\ stopCall.race = "pending"
    /\ TimeoutMayFire(channels, inflight)
    /\ stopCall' = [stopCall EXCEPT !.race = "timedOut"]
    /\ lastPoll' = NoPoll
    /\ UNCHANGED <<clientVars, startOutcome, extVars, sseVars>>
    /\ UNCHANGED <<cacheVars, now, sessionVars, delivered, emitted,
                   terminalSince, handlers, lastStatusEvent>>

\* a stop() that goes on to its loop after the close reported an error
AfterCloseErrorClosing(reg, chs) ==
    [c \in 1..Len(chs) |->
        IF c \in reg
        THEN [chs[c] EXCEPT !.closeAsked = TRUE, !.closed = TRUE, !.stream = FALSE]
        ELSE chs[c]]

\* the catch of stop() logs and rethrows: the statements between the race
\* and the catch (the loop, clear(), dispose(), server.close()) are not
\* executed and the channels stay as they are
AfterCloseError(reg, chs) == chs

\* stop() is called while the HTTP server does not listen (start() could
\* not bind the port, or an earlier stop() has called close() already):
\* close() hands ERR_SERVER_NOT_RUNNING to its callback once the server has
\* drained, the race rejects, and the catch of stop() rethrows
StopNotRunning ==
    /\ stopPhase \in {"unbound", "closing", "stopped"}
    /\ Drained(channels, inflight)
    /\ stopCall' = [stopCall EXCEPT !.notRunning = "rejected"]
    /\ channels' = AfterCloseError(Registered, channels)
    /\ lastPoll' = NoPoll
    /\ UNCHANGED <<clientVars, startOutcome, extVars, sseVars>>
    /\ UNCHANGED <<cacheVars, now, transports, connected, inflight, lastResp,
                   stopPhase, delivered, emitted, terminalSince, handlers,
                   lastStatusEvent>>

\* a loop that is abandoned at the first close that raises
ToCloseUntilError(reg, chs) ==
    IF \E c \in 1..Len(chs) : chs[c].closeAsked /\ ~chs[c].closed
    THEN {}
    ELSE {c \in reg : ~chs[c].closeAsked}

\* for (const [sessionId, transport] of this.transports.entries()): the
\* entries the loop has still to visit
ToClose(reg, chs) == {c \in reg : ~chs[c].closeAsked}

\* one turn of the loop of stop(): transport.close() inside its try/catch.
\* close() ends the streams of the transport and calls onclose (the handler
\* of server.ts, then the one by which the shared McpServer drops its
\* transport); when it raises before that (ok = FALSE) nothing else happens.
\* The loop is synchronous: no other handler runs between its turns.
StopCloseOne(c, ok) ==
    /\ stopPhase \in {"closing", "closingTransports"}
    /\ stopCall.race \in {"closed", "timedOut"}
    /\ c \in ToClose(Registered, channels)
    /\ stopPhase' = "closingTransports"
    /\ channels' = [channels EXCEPT ![c].closeAsked = TRUE,
                                    ![c].closed = ok,
                                    ![c].stream = IF ok THEN FALSE ELSE @]
    /\ transports' = IF ok THEN OnClose(transports, channels[c].sessionId)
                     ELSE transports
    /\ connected' = IF ok THEN 0 ELSE connected
    /\ lastPoll' = NoPoll
    /\ UNCHANGED hostVars
    /\ UNCHANGED <<cacheVars, now, inflight, lastResp, delivered, emitted,
                   terminalSince, handlers, lastStatusEvent>>

\* stop() after the loop: clear the map, dispose the event streaming
\* server, close the McpServer, which closes the transport it still holds
StopFinish ==
    /\ stopPhase \in {"closing", "closingTransports"}
    /\ stopCall.race \in {"closed", "timedOut"}
    /\ ToClose(Registered, channels) = {}
    /\ stopCall' = [stopCall EXCEPT !.result = "resolved"]
    /\ stopPhase' = "stopped"
    /\ handlers' = Dispose(handlers)
    /\ channels' = [c \in 1..Len(channels) |->
                       IF c = connected
                       THEN [channels[c] EXCEPT !.closeAsked = TRUE, !.closed = TRUE,
                                                !.stream = FALSE]
                       ELSE channels[c]]
    /\ transports' = IF connected # 0
                     THEN OnClose(<<>>, channels[connected].sessionId)
                     ELSE <<>>
    /\ connected' = 0
    /\ lastPoll' = NoPoll
    /\ UNCHANGED <<clientVars, startOutcome, extVars, sseVars>>
    /\ UNCHANGED <<cacheVars, now, inflight, lastResp, delivered, emitted,
                   terminalSince, lastStatusEvent>>

\* eventEmitter.on(eventName, handler) for every name of eventsToForward:
\* one more handler set on the collaborator's emitter
Subscribe(h) == h + 1

\* how the Promise returned by start() settles. When the port is bound the
\* listen callback runs and resolves it. When binding fails the http.Server
\* emits 'error': the Promise has no reject path and the only 'error'
\* listener (setupEventHandlers) is installed inside the listen callback, so
\* either nothing settles the Promise (the callback is a 'listening'
\* listener only) or the callback is also run for the error, ignores its
\* argument and resolves; which of the two depends on the express release
StartSettles(bound) == IF bound THEN {"resolved"} ELSE {"pending", "resolved"}

\* The extension builds the next instance after a stop (toggle on after off,
\* or the second half of the configuration-change restart): new MCPServer,
\* whose constructor builds a new EventStreamingServer that subscribes its
\* own handlers, then start(). The variables describe the newest instance,
\* so its map, channels and cache start empty; the handler sets of the
\* instances before it stay on the emitter and are counted in `handlers`.
\* `bound` tells whether app.listen could bind the port.
NewInstance(bound) ==
    /\ handlers < MaxStarts
    /\ handlers' = Subscribe(handlers)
    /\ stopPhase' = IF bound THEN "running" ELSE "unbound"
    /\ startOutcome' \in StartSettles(bound)
    /\ taskStateCache' = <<>>
    /\ timers' = <<>>
    /\ transports' = <<>>
    /\ channels' = <<>>
    /\ connected' = 0
    /\ inflight' = {}
    /\ lastResp' = NoResponse
    /\ delivered' = <<>>
    /\ terminalSince' = [k \in DOMAIN terminalSince |-> -1]
    /\ lastStatusEvent' = [k \in DOMAIN lastStatusEvent |-> NoStatusEvent]
    /\ stopCall' = NoStopCall
    /\ lastPoll' = NoPoll
    /\ UNCHANGED <<now, emitted, clientVars, extVars, sseVars>>

Restart ==
    /\ stopPhase = "stopped"
    /\ NewInstance(TRUE)

\* the next instance is started while the port cannot be bound
RestartBindFails ==
    /\ stopPhase = "stopped"
    /\ NewInstance(FALSE)

\* a catch that writes its envelope whether or not a response was started
CatchResponseAlways(headersSent, ch) == Response(500, -32603, ch)

\* the catch of the POST handler: if (!res.headersSent) the envelope
\* 500 / -32603 / id null is the response; otherwise the response that was
\* started (200, written by the transport) stays the only one
CatchResponse(headersSent, ch) ==
    IF headersSent THEN Response(200, 0, ch) ELSE Response(500, -32603, ch)

\* a POST for a registered session whose transport.handleRequest raises: the
\* catch of the handler logs and answers 500 / -32603 unless the headers
\* are out already; it touches neither the transport nor the session map
PostTransportError(sessionId, headersSent) ==
    /\ stopPhase = "running"
    /\ PostRoute(sessionId, transports) = "reuse"
    /\ lastResp' = CatchResponse(headersSent, transports[sessionId])
    /\ lastPoll' = NoPoll
    /\ UNCHANGED <<cacheVars, now, transports, channels, connected, inflight,
                   delivered, stopPhase, emitted, terminalSince, handlers,
                   lastStatusEvent, hostVars>>

\* the handler of a new transport resumes after the connect and
\* transport.handleRequest raises: the same catch answers
PostResumeError(h, headersSent) ==
    /\ stopPhase # "closingTransports"
    /\ h \in inflight
    /\ inflight' = inflight \ {h}
    /\ lastResp' = CatchResponse(headersSent, h.ch)
    /\ lastPoll' = NoPoll
    /\ UNCHANGED <<cacheVars, now, transports, channels, connected, delivered,
                   stopPhase, emitted, terminalSince, handlers, lastStatusEvent,
                   hostVars>>

-----------------------------------------------------------------------------
(* Capability clients: RooCodeTaskAPI, RooCodeConfigAPI, RooCodeProfileAPI
   and the tools registered over them *)

Groups == {"task", "config", "profile"}

TaskOps == {"startNewTask", "sendMessage", "pressPrimaryButton",
            "pressSecondaryButton"}
ConfigOps == {"getConfiguration", "setConfiguration"}
ProfileOps == {"getProfiles", "getProfileEntry", "createProfile",
               "updateProfile", "upsertProfile", "deleteProfile",
               "getActiveProfile", "setActiveProfile"}
Ops == TaskOps \cup ConfigOps \cup ProfileOps

GroupOf(op) == IF op \in TaskOps THEN "task"
               ELSE IF op \in ConfigOps THEN "config" ELSE "profile"

\* the errors the collaborator's functions raise in the model
CollabErrors == {"E1"}

\* new Error('RooCode extension not available ...') of each client
NotAvailable(g) ==
    IF g = "task"
    THEN "RooCode extension not available - please ensure it is installed and activated"
    ELSE "RooCode extension not available"

\* new Error(`RooCode ${op} function not available`)
FunctionNotAvailable(op) == "RooCode " \o op \o " function not available"

\* a precondition that only asks for the handle
AvailableHandleOnly(g, ext, roo) == ext[g]

\* the precondition at the head of every operation:
\* !this.extension || !this.extension.isActive (|| !this.extension.exports)
Available(g, ext, roo) ==
    IF g = "task" THEN ext[g] /\ roo.isActive /\ roo.exports
    ELSE ext[g] /\ roo.isActive

\* a catch that raises an error of its own in place of the one it caught
OperationCatchWrapping(error) == "Operation failed: " \o error

\* catch (error) { logger.error(...); throw error; }
OperationCatch(error) == error

\* the tool handler and the McpServer around it: the handler returns its
\* success text or rethrows; the server turns a thrown error into a result
\* with isError and the error's message
ToolResult(op, called, raised, error) ==
    [op |-> op, called |-> called, raised |-> raised, error |-> error,
     isError |-> error # ""]

NoTool == ToolResult("", FALSE, "", "")

\* one operation of a capability client; `outcome` is what the collaborator's
\* function does if it is called: "" when it returns, else the error it raises
Operation(op, ext, roo, outcome) ==
    LET g == GroupOf(op) IN
    IF ~Available(g, ext, roo)
    THEN ToolResult(op, FALSE, "", NotAvailable(g))
    ELSE IF g # "task" /\ ~roo.exports
    THEN ToolResult(op, FALSE, "", OperationCatch(FunctionNotAvailable(op)))
    ELSE IF outcome = ""
    THEN ToolResult(op, TRUE, "", "")
    ELSE ToolResult(op, TRUE, outcome, OperationCatch(outcome))

\* a call of one of the capability tools
ToolCall(op, outcome) ==
    /\ lastTool' = Operation(op, extension, rooCode, outcome)
    /\ UNCHANGED <<extension, rooCode, initialized, serverVars>>

\* the roocode_initialize tool: RooCodeTaskAPI.initialize() on the one
\* client it knows. activates tells whether activate() succeeds when it is
\* called, exports whether the activated collaborator exposes its API
ToolInitialize(activates, exports) ==
    LET roo2 == IF rooCode.found /\ ~rooCode.isActive /\ activates
                THEN [rooCode EXCEPT !.isActive = TRUE, !.exports = exports]
                ELSE rooCode
        ok == roo2.found /\ roo2.isActive /\ roo2.exports
    IN  /\ extension' = [extension EXCEPT !["task"] = rooCode.found]
        /\ rooCode' = roo2
        /\ initialized' = (initialized \/ ok)
        /\ lastTool' = ToolResult("initialize", FALSE, "", "")
        /\ UNCHANGED serverVars

\* this.extension.activate() inside initialize(): the collaborator after the
\* call; nothing changes when it is not installed, active already, or when
\* activate() raises
AfterActivate(roo, activates, exports) ==
    IF roo.found /\ ~roo.isActive /\ activates
    THEN [roo EXCEPT !.isActive = TRUE, !.exports = exports]
    ELSE roo

\* the value initialize() returns: false when the extension is not found or
\* activate() raised (the catch); the task client also returns false when
\* exports are missing, the configuration and profile clients return true
\* without looking at exports
InitializeReturns(g, roo2) ==
    IF g = "task" THEN roo2.found /\ roo2.isActive /\ roo2.exports
    ELSE roo2.found /\ roo2.isActive

InitializeResult(g, ok) ==
    [op |-> "initialize", called |-> FALSE, raised |-> "", error |-> "",
     isError |-> FALSE, group |-> g, ok |-> ok]

\* initialize() of the client of group g, called directly
ClientInitialize(g, activates, exports) ==
    LET roo2 == AfterActivate(rooCode, activates, exports) IN
    /\ extension' = [extension EXCEPT ![g] = rooCode.found]
    /\ rooCode' = roo2
    /\ lastTool' = InitializeResult(g, InitializeReturns(g, roo2))
    /\ UNCHANGED <<initialized, serverVars>>

\* the collaborator is installed
RooInstall ==
    /\ ~rooCode.found
    /\ rooCode' = [rooCode EXCEPT !.found = TRUE]
    /\ lastTool' = NoTool
    /\ UNCHANGED <<extension, initialized, serverVars>>

\* the collaborator is activated by the editor
RooActivate(exports) ==
    /\ rooCode.found
    /\ ~rooCode.isActive
    /\ rooCode' = [rooCode EXCEPT !.isActive = TRUE, !.exports = exports]
    /\ lastTool' = NoTool
    /\ UNCHANGED <<extension, initialized, serverVars>>

-----------------------------------------------------------------------------
(* The extension: toggleServerState, the configuration-change restart and *)
(* deactivate over the module variables mcpServer and serverEnabled       *)

\* an MCPServer the extension has constructed: "started" (its HTTP server
\* listens), "failed" (start() could not bind the port), "stopping" (stop()
\* has called httpServer.close() and has not returned), "stopped"
Instance(state) == [state |-> state]

Listening(insts) == {i \in 1..Len(insts) : insts[i].state = "started"}

\* a port is bound by one server at a time
CanBind(insts) == Listening(insts) = {}

\* a handler suspended at `await mcpServer.start()` or `await
\* mcpServer.stop()`; `first` tells whether the HTTP server was listening
\* when stop() was called
Call(op, inst, first) == [op |-> op, inst |-> inst, first |-> first]

ToggleOps == {"toggleStart", "toggleStop"}

\* mcpServer = new MCPServer(...); mcpServer.setupTools(); await
\* mcpServer.start(): the instance listens or could not bind, and the
\* handler waits for start() to settle
NewServer(op, bound) ==
    /\ Len(instances) < MaxInstances
    /\ Cardinality(calls) < MaxCalls
    /\ bound => CanBind(instances)
    /\ instances' = Append(instances, Instance(IF bound THEN "started" ELSE "failed"))
    /\ mcpServer' = Len(instances) + 1
    /\ calls' = calls \cup {Call(op, Len(instances) + 1, FALSE)}

\* await mcpServer.stop(): httpServer.close() is called at once, so the
\* instance stops listening, and the handler waits for stop() to settle
BeginStop(op) ==
    /\ Cardinality(calls) < MaxCalls
    /\ LET first == instances[mcpServer].state = "started" IN
       /\ Call(op, mcpServer, first) \notin calls
       /\ calls' = calls \cup {Call(op, mcpServer, first)}
       /\ instances' = IF first
                       THEN [instances EXCEPT ![mcpServer] = Instance("stopping")]
                       ELSE instances
    /\ UNCHANGED mcpServer

\* serverEnabled = !serverEnabled, the first statement of toggleServerState
EnabledAfterToggle(enabled) == ~enabled

\* toggleServerState up to its await: the flag is flipped; turned on, a
\* server is constructed and started unless mcpServer is set; turned off,
\* the server mcpServer names is stopped
ToggleServerState(bound) ==
    /\ ~deactivated
    /\ serverEnabled' = EnabledAfterToggle(serverEnabled)
    /\ IF ~serverEnabled
       THEN IF mcpServer = 0
            THEN NewServer("toggleStart", bound)
            ELSE bound /\ UNCHANGED <<mcpServer, instances, calls>>
       ELSE /\ bound
            /\ IF mcpServer # 0
               THEN BeginStop("toggleStop")
               ELSE UNCHANGED <<mcpServer, instances, calls>>
    /\ UNCHANGED <<deactivated, bridgeVars, sseVars>>

\* the configuration-change listener up to its first await: when the server
\* is enabled and mcpServer is set, the server is stopped
ConfigChange ==
    /\ ~deactivated
    /\ serverEnabled
    /\ mcpServer # 0
    /\ BeginStop("restartStop")
    /\ UNCHANGED <<serverEnabled, deactivated, bridgeVars, sseVars>>

\* deactivate() up to its await
Deactivate ==
    /\ ~deactivated
    /\ deactivated' = TRUE
    /\ IF mcpServer = 0
       THEN UNCHANGED <<mcpServer, instances, calls>>
       ELSE BeginStop("deactivate")
    /\ UNCHANGED <<serverEnabled, bridgeVars, sseVars>>

\* start() has settled: the handler logs, shows a message and returns
ResumeStart(c) ==
    /\ c \in calls
    /\ c.op \in {"toggleStart", "restartStart"}
    /\ calls' = calls \ {c}
    /\ UNCHANGED <<serverEnabled, mcpServer, instances, deactivated, bridgeVars,
                   sseVars>>

\* what mcpServer is after the await of stop(): the statement after it sets
\* it to undefined when stop() resolved; when stop() was rejected, only the
\* finally clause of deactivate() does
McpServerAfterStop(op, resolved, ref) ==
    IF resolved \/ op = "deactivate" THEN 0 ELSE ref

\* stop() has settled. A stop() called on a listening server resolves after
\* its teardown; one called on a server that did not listen is rejected with
\* the error of close(), not before the stop() that was called first has
\* finished. After a resolved stop() the restart goes on to construct and
\* start the next server.
ResumeStop(c, bound) ==
    /\ c \in calls
    /\ c.op \in {"toggleStop", "restartStop", "deactivate"}
    /\ ~c.first => instances[c.inst].state # "stopping"
    /\ LET stopped == IF c.first
                      THEN [instances EXCEPT ![c.inst] = Instance("stopped")]
                      ELSE instances
       IN IF c.first /\ c.op = "restartStop"
          THEN /\ Len(stopped) < MaxInstances
               /\ bound => CanBind(stopped)
               /\ instances' = Append(stopped, Instance(IF bound THEN "started" ELSE "failed"))
               /\ mcpServer' = Len(stopped) + 1
               /\ calls' = (calls \ {c}) \cup {Call("restartStart", Len(stopped) + 1, FALSE)}
          ELSE /\ bound
               /\ instances' = stopped
               /\ mcpServer' = McpServerAfterStop(c.op, c.first, mcpServer)
               /\ calls' = calls \ {c}
    /\ UNCHANGED <<serverEnabled, deactivated, bridgeVars, sseVars>>

-----------------------------------------------------------------------------
(* The SSE event forwarder: EventStreamingServer of                       *)
(* src/src/tools/event-streaming-server.ts, lines 10-208                  *)

\* a client of GET /events: "refused" (the first write raised and the
\* handler was abandoned), "open", "closed" (the request emitted 'close'),
\* "errored" (it emitted 'error'), "failedWrite" (a forward could not write
\* to it), "ended" (dispose() ended its response); `log` is what was written
SseClient(status, log) == [status |-> status, log |-> log]

SseEventNames == {"taskCreated", "statusChanged"}

\* generateClientId(): the time and nine random digits; the model takes the
\* ids of different requests to be different and numbers them
GenerateClientId(clients) == Len(clients) + 1

\* a loop over the table that is abandoned at the first write that raises
WrittenUntilFailure(table, failing) ==
    {n \in table : \A f \in failing : n < f}

\* this.eventClients.forEach with the write inside try/catch: every client
\* of the table is visited, in insertion order, and those whose write does
\* not raise have the event written
Written(table, failing) == table \ failing

\* GET /events: the headers and the 'connected' event are written, then the
\* client is put in the table and the two listeners are installed; when the
\* write raises the handler ends there
SseConnect(ok) ==
    /\ Len(sseClients) < MaxSseClients
    /\ LET clientId == GenerateClientId(sseClients) IN
       IF ok
       THEN /\ sseClients' = Append(sseClients, SseClient("open", <<"connected">>))
            /\ eventClients' = eventClients \cup {clientId}
       ELSE /\ sseClients' = Append(sseClients, SseClient("refused", <<>>))
            /\ UNCHANGED eventClients
    /\ UNCHANGED <<sseForwarded, bridgeVars, extVars>>

\* req.on('close') and req.on('error'): the client leaves the table
SseRequestEnds(clientId, how) ==
    /\ clientId \in 1..Len(sseClients)
    /\ sseClients[clientId].status \in {"open", "failedWrite", "ended"}
    /\ how \in {"closed", "errored"}
    /\ sseClients' = [sseClients EXCEPT ![clientId].status = how]
    /\ eventClients' = eventClients \ {clientId}
    /\ UNCHANGED <<sseForwarded, bridgeVars, extVars>>

\* forwardEventToClients: the event is written to every client of the
\* table; a client whose write raises is deleted from the table
ForwardEventToSseClients(eventName, failing) ==
    /\ sseForwarded < MaxSseEvents
    /\ failing \subseteq eventClients
    /\ sseForwarded' = sseForwarded + 1
    /\ sseClients' = [n \in 1..Len(sseClients) |->
                         IF n \in failing
                         THEN [sseClients[n] EXCEPT !.status = "failedWrite"]
                         ELSE IF n \in Written(eventClients, failing)
                              THEN [sseClients[n] EXCEPT !.log = Append(@, eventName)]
                              ELSE sseClients[n]]
    /\ eventClients' = eventClients \ failing
    /\ UNCHANGED <<bridgeVars, extVars>>

\* dispose(): res.end() for every client of the table, each in its own
\* try/catch, then clear()
SseDispose ==
    /\ sseClients' = [n \in 1..Len(sseClients) |->
                         IF n \in eventClients
                         THEN [sseClients[n] EXCEPT !.status = "ended"]
                         ELSE sseClients[n]]
    /\ eventClients' = {}
    /\ UNCHANGED <<sseForwarded, bridgeVars, extVars>>

-----------------------------------------------------------------------------
(* Specifications *)

Init ==
    /\ taskStateCache = <<>>
    /\ timers = <<>>
    /\ now = 0
    /\ transports = <<>>
    /\ channels = <<>>
    /\ connected = 0
    /\ inflight = {}
    /\ lastResp = NoResponse
    /\ delivered = <<>>
    /\ stopPhase = "running"
    /\ emitted = 0
    /\ terminalSince = [k \in {Str("T1"), Str("T2")} |-> -1]
    /\ handlers = 1
    /\ lastPoll = NoPoll
    /\ lastStatusEvent = [k \in {Str("T1"), Str("T2")} |-> NoStatusEvent]
    /\ extension = [g \in Groups |-> FALSE]
    /\ rooCode = [found |-> FALSE, isActive |-> FALSE, exports |-> FALSE]
    /\ lastTool = NoTool
    /\ initialized = FALSE
    /\ startOutcome = "resolved"
    /\ stopCall = NoStopCall
    /\ serverEnabled = TRUE
    /\ mcpServer = 1
    /\ instances = <<Instance("started")>>
    /\ calls = {}
    /\ deactivated = FALSE
    /\ eventClients = {}
    /\ sseClients = <<>>
    /\ sseForwarded = 0

TaskIds == {"T1", "T2"}
Bodies == {"initialize", "call"}

\* Sessions, with one task's creation and completion as the events to forward
SessionEvents == {"taskCreated"}

Next ==
    \/ \E sessionId \in Uuids \cup {0}, body \in Bodies : PostArrive(sessionId, body)
    \/ \E h \in inflight : PostResume(h)
    \/ StopBegin
    \/ HttpCloseCallback
    \/ ForceTimeout
    \/ \E c \in 1..Len(channels), ok \in BOOLEAN : StopCloseOne(c, ok)
    \/ StopFinish
    \/ \E e \in SessionEvents : Emit(e, <<Str("T1"), Undefined>>)

Spec == Init /\ [][Next]_vars

\* The task state cache at one instant: every status event, a message and an
\* event outside the table for task T1, given as a plain string or as the
\* taskId field of a payload object, interleaved with events of task T2
CacheEvents == TableEvents \cup {"message", "taskFocused"}
OtherTaskEvents == {"taskCreated", "taskCompleted"}
FirstArgs == {Str("T1"), Obj("T1")}

\* the second argument: only a message event carries one
Payload(e) == IF e = "message" THEN Str("m") ELSE Undefined

TotalMessages ==
    LET RECURSIVE Sum(_)
        Sum(i) == IF i = 0 THEN 0 ELSE Len(taskStateCache[i].messages) + Sum(i - 1)
    IN  Sum(Len(taskStateCache))

CacheEmit(e, f) ==
    /\ e = "message" => TotalMessages < MaxCacheMsgs
    /\ Emit(e, <<f, Payload(e)>>)

NextCache ==
    \/ \E e \in CacheEvents, f \in FirstArgs : CacheEmit(e, f)
    \/ \E e \in OtherTaskEvents : CacheEmit(e, Str("T2"))

SpecCache == Init /\ [][NextCache]_vars

\* Retention: terminal and non-terminal events of the two tasks, the clock
\* and the purge timers
RetentionEvents == {"taskActive", "taskCompleted", "taskAborted", "message"}

NextRetention ==
    \/ \E e \in RetentionEvents : CacheEmit(e, Str("T1"))
    \/ CacheEmit("taskCompleted", Str("T2"))
    \/ Purge
    \/ Tick

SpecRetention == Init /\ [][NextRetention]_vars

\* The message history of one task: messages numbered in emission order,
\* interleaved with status events of the task
HistEvents == {"taskActive", "taskCompleted"}

NumberedMessage(max) ==
    /\ emitted < max
    /\ EmitBody("message", <<Obj("T1"), Str(ToString(emitted + 1))>>)
    /\ emitted' = emitted + 1

HistMessage == NumberedMessage(MaxHistMsgs)

NextHist ==
    \/ HistMessage
    \/ \E e \in HistEvents : Emit(e, <<Str("T1"), Undefined>>)

SpecHist == Init /\ [][NextHist]_vars

\* Polling: the task ids a client may ask for, T3 being one no event carries
PollArgs == {Undefined, Str("T1"), Str("T2"), Str("T3")}

\* Polling over the retention model: the records of two tasks appear, turn
\* terminal and are purged while a client polls
NextPoll ==
    \/ NextRetention
    \/ \E a \in PollArgs : Poll(a)

SpecPoll == Init /\ [][NextPoll]_vars

\* Polling over the message history of one task
NextWindow ==
    \/ NextHist
    \/ \E a \in {Undefined, Str("T1")} : Poll(a)

SpecWindow == Init /\ [][NextWindow]_vars

\* Emission order: numbered messages and status events of one task, the
\* clock and the purge timers
OrderEvents == {"taskActive", "taskCompleted"}

NextOrder ==
    \/ NumberedMessage(MaxOrderMsgs)
    \/ \E e \in OrderEvents : Emit(e, <<Str("T1"), Undefined>>)
    \/ Purge
    \/ Tick

SpecOrder == Init /\ [][NextOrder]_vars

\* Notification order: sessions are initialized while numbered events are
\* forwarded
NextNotify ==
    \/ PostArrive(0, "initialize")
    \/ \E h \in inflight : PostResume(h)
    \/ NumberedMessage(MaxNotifyMsgs)

SpecNotify == Init /\ [][NextNotify]_vars

\* Streams and shutdown: sessions are initialized, GET requests attach
\* streams, stop() closes the channels
NextStream ==
    \/ PostArrive(0, "initialize")
    \/ \E h \in inflight : PostResume(h)
    \/ \E sessionId \in Uuids \cup {0} : GetArrive(sessionId)
    \/ StopBegin
    \/ HttpCloseCallback
    \/ ForceTimeout
    \/ \E c \in 1..Len(channels), ok \in BOOLEAN : StopCloseOne(c, ok)
    \/ StopFinish

SpecStream == Init /\ [][NextStream]_vars

\* Lifecycle: sessions are initialized, also by requests handled while
\* stop() waits, the instance is stopped and the extension starts the next
\* one, and the collaborator emits an event
NextLifecycle ==
    \/ PostArrive(0, "initialize")
    \/ PostArriveClosing(0, "initialize")
    \/ \E h \in inflight : PostResume(h)
    \/ StopBegin
    \/ HttpCloseCallback
    \/ ForceTimeout
    \/ \E c \in 1..Len(channels), ok \in BOOLEAN : StopCloseOne(c, ok)
    \/ StopFinish
    \/ Restart
    \/ RestartBindFails
    \/ \E sessionId \in Uuids, headersSent \in BOOLEAN :
          PostTransportError(sessionId, headersSent)
    \/ Emit("taskCreated", <<Str("T1"), Undefined>>)

SpecLifecycle == Init /\ [][NextLifecycle]_vars

\* Events without a task id: events whose first argument carries an id or
\* none, with names in and outside the transition table, while a session is
\* initialized
FrameEvents == {"taskActive", "message", "taskFocused"}

\* first arguments that carry no task id: nothing at all, and an object
\* whose taskId field is not set
NoIdArgs == {Undefined, Obj("")}
FrameArgs == NoIdArgs \cup {Str("T1")}

\* the one client of this scenario opens its session
FrameSession ==
    /\ channels = <<>>
    /\ PostArrive(0, "initialize")

NextFrame ==
    \/ \E e \in FrameEvents, f \in FrameArgs : CacheEmit(e, f)
    \/ FrameSession
    \/ \E h \in inflight : PostResume(h)

SpecFrame == Init /\ [][NextFrame]_vars

\* Events outside the transition table: the retention model with every
\* event name the table does not list
UnlistedEvents == eventsToForward \ TableEvents

NextUnlisted ==
    \/ NextRetention
    \/ \E e \in UnlistedEvents : CacheEmit(e, Str("T1"))

SpecUnlisted == Init /\ [][NextUnlisted]_vars

\* The life of one task: taskCreated, taskActive, one message and
\* taskCompleted are emitted for T1 in this order while the clock runs, the
\* purge timer fires and a client polls
ScenarioStatus == GetTaskState(taskStateCache, Str("T1")).status
ScenarioMessages == GetTaskState(taskStateCache, Str("T1")).messages
BuildStarted == <<Str("T1"), Str("build started")>>

ScenarioCreated ==
    /\ lastStatusEvent[Str("T1")].ever = ""
    /\ Emit("taskCreated", <<Str("T1"), Undefined>>)

ScenarioActive ==
    /\ ScenarioStatus = "created"
    /\ Emit("taskActive", <<Str("T1"), Undefined>>)

ScenarioMessage ==
    /\ ScenarioStatus = "active"
    /\ emitted = 0
    /\ EmitBody("message", BuildStarted)
    /\ emitted' = emitted + 1

ScenarioCompleted ==
    /\ ScenarioStatus = "active"
    /\ emitted = 1
    /\ Emit("taskCompleted", <<Str("T1"), Undefined>>)

NextScenario ==
    \/ ScenarioCreated
    \/ ScenarioActive
    \/ ScenarioMessage
    \/ ScenarioCompleted
    \/ Purge
    \/ Tick
    \/ \E a \in {Undefined, Str("T1")} : Poll(a)

SpecScenario == Init /\ [][NextScenario]_vars

\* Request failures: requests with known, unknown and no session id, and
\* requests whose handling raises before or after a response was started
NextErrors ==
    \/ \E sessionId \in Uuids \cup {0}, body \in Bodies : PostArrive(sessionId, body)
    \/ \E h \in inflight : PostResume(h)
    \/ \E h \in inflight, headersSent \in BOOLEAN : PostResumeError(h, headersSent)
    \/ \E sessionId \in Uuids, headersSent \in BOOLEAN :
          PostTransportError(sessionId, headersSent)

SpecErrors == Init /\ [][NextErrors]_vars

\* Discovery: the collaborator is installed and activated, with or without
\* exports, and each client's initialize() is called
NextDiscovery ==
    \/ RooInstall
    \/ \E exports \in BOOLEAN : RooActivate(exports)
    \/ \E g \in Groups, activates, exports \in BOOLEAN :
          ClientInitialize(g, activates, exports)
    \/ \E op \in Ops, outcome \in CollabErrors \cup {""} : ToolCall(op, outcome)

SpecDiscovery == Init /\ [][NextDiscovery]_vars

\* Readers of the cache: events of one task are ingested and purged while
\* a client holds a session, the cache is polled, statistics are read, test
\* events are sent and the server is stopped
ReaderEvents == {"taskCompleted", "message"}
TestEvent == <<Str("T1"), Str("test")>>

NextReaders ==
    \/ \E e \in ReaderEvents : CacheEmit(e, Str("T1"))
    \/ Purge
    \/ Tick
    \/ FrameSession
    \/ \E h \in inflight : PostResume(h)
    \/ \E a \in {Undefined, Str("T1")} : Poll(a)
    \/ GetStats
    \/ SendTestEvent("message", TestEvent)
    \/ StopBegin
    \/ HttpCloseCallback
    \/ ForceTimeout
    \/ StopFinish

SpecReaders == Init /\ [][NextReaders]_vars

\* Shutdown: sessions are initialized and attach notification streams,
\* stop() waits for the close callback or for its timeout and then closes
\* the channels; stop() is also called on a server that does not listen,
\* after a bind failure among others
NextStop ==
    \/ PostArrive(0, "initialize")
    \/ \E h \in inflight : PostResume(h)
    \/ \E sessionId \in Uuids : GetArrive(sessionId)
    \/ StopBegin
    \/ HttpCloseCallback
    \/ ForceTimeout
    \/ \E c \in 1..Len(channels), ok \in BOOLEAN : StopCloseOne(c, ok)
    \/ StopFinish
    \/ StopNotRunning
    \/ RestartBindFails

SpecStop == Init /\ [][NextStop]_vars

\* The timer of the race fires, the loop of stop() takes its turns and the
\* statements after it run: the event loop runs every callback that is due
\* and every continuation that is ready. Nothing obliges a client to end
\* its stream or the close callback to run.
SpecStopLive ==
    /\ SpecStop
    /\ WF_vars(ForceTimeout)
    /\ WF_vars(\E c \in 1..Len(channels), ok \in BOOLEAN : StopCloseOne(c, ok))
    /\ WF_vars(StopFinish)

\* The status bar command: toggleServerState is invoked, also while an
\* earlier invocation awaits start() or stop()
NextToggle ==
    \/ \E bound \in BOOLEAN : ToggleServerState(bound)
    \/ \E c \in calls : ResumeStart(c)
    \/ \E c \in calls, bound \in BOOLEAN : ResumeStop(c, bound)

SpecToggle == Init /\ [][NextToggle]_vars

\* The extension: toggles, configuration changes and deactivation
NextExtension ==
    \/ \E bound \in BOOLEAN : ToggleServerState(bound)
    \/ ConfigChange
    \/ Deactivate
    \/ \E c \in calls : ResumeStart(c)
    \/ \E c \in calls, bound \in BOOLEAN : ResumeStop(c, bound)

SpecExtension == Init /\ [][NextExtension]_vars

\* The SSE forwarder: clients connect, leave and fail, events are
\* forwarded, the forwarder is disposed
NextSse ==
    \/ \E ok \in BOOLEAN : SseConnect(ok)
    \/ \E clientId \in 1..MaxSseClients, how \in {"closed", "errored"} :
          SseRequestEnds(clientId, how)
    \/ \E eventName \in SseEventNames, failing \in SUBSET eventClients :
          ForwardEventToSseClients(eventName, failing)
    \/ SseDispose

SpecSse == Init /\ [][NextSse]_vars

\* Capability tools: the collaborator is installed and activated, the
\* client is initialized, and every tool is called with a collaborator
\* function that returns or raises
NextClient ==
    \/ RooInstall
    \/ \E exports \in BOOLEAN : RooActivate(exports)
    \/ \E activates, exports \in BOOLEAN : ToolInitialize(activates, exports)
    \/ \E op \in Ops, outcome \in CollabErrors \cup {""} : ToolCall(op, outcome)

SpecClient == Init /\ [][NextClient]_vars

-----------------------------------------------------------------------------
(* Session registry: claims C1 - C4, checked under Spec *)

\* C1: a POST whose session id is not in the session map is answered with
\* HTTP 400 and code -32000, and leaves the session map and the set of
\* channels as they were.
C1_UnknownSessionRejected ==
    [][\A sid \in Uuids, body \in Bodies :
          (sid \notin DOMAIN transports /\ PostArrive(sid, body))
          => /\ lastResp' = Response(400, -32000, 0)
             /\ transports' = transports
             /\ channels' = channels
             /\ connected' = connected]_vars

\* C1 witness: with a session registered, a POST under another id was rejected
C1_Witness ==
    /\ DOMAIN transports # {}
    /\ lastResp = Response(400, -32000, 0)

\* C2: an initialization request with no session header is given an id that
\* was never issued before and its channel is registered under it; as long
\* as the id stays registered it maps to that channel, and a request that
\* carries it is handed to that channel and constructs no channel.
C2_FreshSessionRoutesToItsChannel ==
    [][/\ \A h \in inflight :
             (h.body = "initialize" /\ PostResume(h))
             => \E sid \in Uuids \ Issued :
                   /\ sid \notin DOMAIN transports
                   /\ sid \in DOMAIN transports'
                   /\ transports'[sid] = h.ch
                   /\ lastResp' = Response(200, 0, h.ch)
       /\ \A sid \in DOMAIN transports :
             sid \in DOMAIN transports' => transports'[sid] = transports[sid]
       /\ \A sid \in DOMAIN transports, body \in Bodies :
             PostArrive(sid, body)
             => /\ lastResp'.ch = transports[sid]
                /\ channels[transports[sid]].sessionId = sid
                /\ Len(channels') = Len(channels)
                /\ transports' = transports]_vars

\* C2 witness: two sessions are registered and a request carrying the first
\* session's id has just been served by the first channel
C2_Witness ==
    /\ Cardinality(DOMAIN transports) = 2
    /\ \E sid \in DOMAIN transports :
          /\ transports[sid] = 1
          /\ lastResp = Response(200, 0, 1)
    /\ Len(channels) = 2
    /\ inflight = {}

\* C3: every registered channel is registered under exactly one id, its own,
\* also while initialization requests are suspended at the connect.
C3_OneChannelPerSession ==
    /\ \A s1, s2 \in DOMAIN transports :
          transports[s1] = transports[s2] => s1 = s2
    /\ \A s \in DOMAIN transports :
          /\ transports[s] \in 1..Len(channels)
          /\ channels[transports[s]].sessionId = s

\* C3 witness: one session is registered while another initialization
\* request is suspended at the connect
C3_Witness ==
    /\ DOMAIN transports # {}
    /\ \E h \in inflight : h.body = "initialize"

\* C4: an event emitted while no request handler is suspended is handed as a
\* notification to every channel registered in the session map.
C4_EveryRegisteredChannelNotified ==
    [][\A e \in SessionEvents :
          (inflight = {} /\ Emit(e, <<Str("T1"), Undefined>>))
          => \A c \in Registered :
                delivered'[c] = Append(delivered[c],
                    [event |-> e, data |-> <<Str("T1"), Undefined>>])]_vars

-----------------------------------------------------------------------------
(* Task state cache: claims C5, C6 and C8 under SpecCache, C7 and C9 under
   SpecRetention *)

AllFirstArgs == FirstArgs \cup {Str("T2")}
KeyOf(f) == ExtractTaskId(<<f, Undefined>>)
Occurrences(cache, k) == Cardinality({i \in 1..Len(cache) : cache[i].taskId = k})

\* the status transition table of the design
TransitionTable ==
    [taskCreated |-> "created", taskStarted |-> "started", taskActive |-> "active",
     taskInteractive |-> "interactive", taskIdle |-> "idle",
     taskCompleted |-> "completed", taskAborted |-> "aborted",
     taskResumable |-> "resumable"]

\* C5: right after an event with a name of the transition table is ingested,
\* the cached status of its task is the one the table gives for that name,
\* whatever events of the other task came before.
C5_StatusFollowsTable ==
    [][\A e \in TableEvents, f \in AllFirstArgs :
          CacheEmit(e, f)
          => /\ CacheHas(taskStateCache', KeyOf(f))
             /\ GetTaskState(taskStateCache', KeyOf(f)).status = TransitionTable[e]]_vars

\* C5 witness: task T1 is cached as idle next to a completed task T2 that was
\* recorded before it
C5_Witness ==
    /\ Len(taskStateCache) = 2
    /\ taskStateCache[1].taskId = Str("T2")
    /\ taskStateCache[1].status = "completed"
    /\ taskStateCache[2].taskId = Str("T1")
    /\ taskStateCache[2].status = "idle"

\* C6: the cache never holds two records of one task id: an event for an id
\* with no record adds exactly one record, an event for a cached id adds none.
C6_OneRecordPerTask ==
    [][/\ \A k \in CacheKeys(taskStateCache') : Occurrences(taskStateCache', k) = 1
       /\ \A e \in CacheEvents, f \in AllFirstArgs :
             CacheEmit(e, f)
             => /\ Occurrences(taskStateCache', KeyOf(f)) = 1
                /\ Len(taskStateCache') =
                     IF CacheHas(taskStateCache, KeyOf(f))
                     THEN Len(taskStateCache)
                     ELSE Len(taskStateCache) + 1]_vars

\* C6 witness: two tasks are cached, the first after several events of its own
C6_Witness ==
    /\ Len(taskStateCache) = 2
    /\ taskStateCache[1].taskId = Str("T1")
    /\ taskStateCache[1].status = "active"
    /\ Len(taskStateCache[1].messages) = 1
    /\ taskStateCache[2].taskId = Str("T2")

\* C7: a record that entered a terminal status at time t is not removed
\* before t + RetentionMs, and it is no longer in the cache after that time.
C7_RetainedForWindowThenAbsent ==
    [][\A k \in DOMAIN terminalSince :
          /\ (terminalSince[k] >= 0 /\ ~CacheHas(taskStateCache', k))
             => now >= terminalSince[k] + RetentionMs
          /\ terminalSince'[k] >= 0
             => now' <= terminalSince'[k] + RetentionMs]_vars

\* C8: once a record is completed or aborted, no event other than taskCreated
\* for its task leaves it with a non-terminal status.
C8_TerminalNeverOverwritten ==
    [][\A k \in CacheKeys(taskStateCache) :
          ( /\ Terminal(GetTaskState(taskStateCache, k).status)
            /\ CacheHas(taskStateCache', k)
            /\ ~ \E f \in AllFirstArgs : KeyOf(f) = k /\ CacheEmit("taskCreated", f) )
          => Terminal(GetTaskState(taskStateCache', k).status)]_vars

\* C9: a record leaves the cache only when it is in a terminal status that it
\* entered at least a retention interval before; a record that is
\* non-terminal when a purge timer fires stays.
C9_OnlyTerminalRecordsPurged ==
    [][\A k \in CacheKeys(taskStateCache) :
          ~CacheHas(taskStateCache', k)
          => /\ Terminal(GetTaskState(taskStateCache, k).status)
             /\ now >= terminalSince[k] + RetentionMs]_vars

-----------------------------------------------------------------------------
(* Message history: claim C10, checked under SpecHist *)

Min(a, b) == IF a < b THEN a ELSE b

\* C10: the history of a record holds at most MAX_MESSAGES_PER_TASK entries,
\* and they are the most recently emitted messages in emission order: with n
\* messages emitted, entry j of a history of length l is message n - l + j.
C10_HistoryCappedFifo ==
    \A i \in 1..Len(taskStateCache) :
        LET m == taskStateCache[i].messages IN
        /\ Len(m) <= MAX_MESSAGES_PER_TASK
        /\ Len(m) = Min(emitted, MAX_MESSAGES_PER_TASK)
        /\ \A j \in 1..Len(m) :
              m[j].content = Str(ToString(emitted - Len(m) + j))

\* C10 witness: two messages beyond the cap have arrived and the history
\* starts at the third
C10_Witness ==
    /\ emitted = MAX_MESSAGES_PER_TASK + 2
    /\ Len(taskStateCache) = 1
    /\ Len(taskStateCache[1].messages) = MAX_MESSAGES_PER_TASK
    /\ taskStateCache[1].messages[1].content = Str("3")

-----------------------------------------------------------------------------
(* Polling query: claims C11 - C13, checked under SpecPoll and SpecWindow *)

PollIds(p) == {p.tasks[i].taskId : i \in 1..Len(p.tasks)}

\* C11: a poll without a task id returns exactly the records that are in the
\* cache at that moment, each once and with its status and last update; when
\* the cache holds no record the result is the explicit empty result.
C11_PollAllReturnsLiveRecords ==
    [][\A a \in PollArgs :
          Poll(a) /\ ~Truthy(a)
          => IF taskStateCache = <<>>
             THEN lastPoll'.kind = "empty"
             ELSE /\ lastPoll'.kind = "tasks"
                  /\ PollIds(lastPoll') = CacheKeys(taskStateCache)
                  /\ Len(lastPoll'.tasks) = Cardinality(CacheKeys(taskStateCache))
                  /\ \A i \in 1..Len(lastPoll'.tasks) :
                        LET v == lastPoll'.tasks[i]
                            r == CacheGet(taskStateCache, v.taskId)
                        IN  v.status = r.status /\ v.lastUpdate = r.lastUpdate]_vars

\* C11 witness: task T1 was completed and purged, and a poll of all tasks
\* has just returned the record of T2 alone
C11_Witness ==
    /\ lastPoll.kind = "tasks"
    /\ PollIds(lastPoll) = {Str("T2")}
    /\ lastStatusEvent[Str("T1")].ever = "taskCompleted"
    /\ ~CacheHas(taskStateCache, Str("T1"))

\* C12: a poll for a task id that has no record returns the explicit
\* not-found result and leaves the cache as it was, without a record for
\* that id.
C12_PollUnknownIdNotFound ==
    [][\A a \in PollArgs :
          Poll(a) /\ Truthy(a) /\ ~CacheHas(taskStateCache, a)
          => /\ lastPoll'.kind = "notFound"
             /\ lastPoll'.tasks = <<>>
             /\ taskStateCache' = taskStateCache
             /\ ~CacheHas(taskStateCache', a)]_vars

\* C12 witness: both tasks are cached and a poll has just answered not-found
C12_Witness ==
    /\ lastPoll.kind = "notFound"
    /\ CacheKeys(taskStateCache) = {Str("T1"), Str("T2")}

\* C13: the messages a poll shows of a task are the RECENT_MESSAGES most
\* recently emitted ones (all of them when fewer were emitted), in emission
\* order: with n messages emitted, entry j of a window of length l is message
\* n - l + j.
C13_PollShowsRecentWindow ==
    [][\A a \in {Undefined, Str("T1")} :
          Poll(a) /\ CacheHas(taskStateCache, Str("T1"))
          => /\ Len(lastPoll'.tasks) = 1
             /\ LET w == lastPoll'.tasks[1].recentMessages IN
                /\ Len(w) = Min(emitted, RECENT_MESSAGES)
                /\ \A j \in 1..Len(w) :
                      w[j].content = Str(ToString(emitted - Len(w) + j))]_vars

\* C13 witness: seven messages have arrived and a poll shows the third to
\* the seventh
C13_Witness ==
    /\ emitted = RECENT_MESSAGES + 2
    /\ lastPoll.kind = "task"
    /\ Len(lastPoll.tasks[1].recentMessages) = RECENT_MESSAGES
    /\ lastPoll.tasks[1].recentMessages[1].content = Str("3")

-----------------------------------------------------------------------------
(* Delivery failure: claim C14, checked under Spec *)

\* C14: every event emitted with a task id is ingested in the cache whether
\* or not its notification could be delivered; a failed delivery adds no
\* notification to any channel.
C14_FailedDeliveryStillIngested ==
    [][\A e \in SessionEvents :
          Emit(e, <<Str("T1"), Undefined>>)
          => /\ CacheHas(taskStateCache', Str("T1"))
             /\ GetTaskState(taskStateCache', Str("T1")).status = TransitionTable[e]
             /\ GetTaskState(taskStateCache', Str("T1")).lastUpdate = now
             /\ ForwardOutcome(connected) = "failed" => delivered' = delivered]_vars

\* C14 witness: a session exists, no notification was ever delivered, and
\* the event is in the cache
C14_Witness ==
    /\ Len(channels) >= 1
    /\ \A c \in DOMAIN delivered : delivered[c] = <<>>
    /\ CacheHas(taskStateCache, Str("T1"))

-----------------------------------------------------------------------------
(* Emission order: claim C15, checked under SpecOrder *)

\* C15, as stated: the cached status of a task is the one the table gives
\* for the status event emitted last for it.
C15_StatusOfLastStatusEvent ==
    \A i \in 1..Len(taskStateCache) :
        LET r == taskStateCache[i] IN
        lastStatusEvent[r.taskId].ever # ""
        => r.status = TransitionTable[lastStatusEvent[r.taskId].ever]

\* C15, amended: the cached status of a task is the one the table gives for
\* the status event emitted last for it since its present record was
\* inserted (unknown when there is none), and the history of the record
\* holds the messages emitted since then in emission order: with n messages
\* emitted, entry j of a history of length l is message n - l + j.
C15_AppliedInEmissionOrder ==
    \A i \in 1..Len(taskStateCache) :
        LET r == taskStateCache[i]
            e == lastStatusEvent[r.taskId].current
            m == r.messages
        IN  /\ r.status = IF e = "" THEN "unknown" ELSE TransitionTable[e]
            /\ \A j \in 1..Len(m) :
                  m[j].content = Str(ToString(emitted - Len(m) + j))

\* C15 witness: the first record of the task was purged, and its present
\* record is active with the second and third message
C15_Witness ==
    /\ emitted = 3
    /\ Len(taskStateCache) = 1
    /\ taskStateCache[1].status = "active"
    /\ Len(taskStateCache[1].messages) = 2

-----------------------------------------------------------------------------
(* Notification order: claim C16, checked under SpecNotify *)

\* the emission number of a forwarded message event
NumOf(ev) == CHOOSE n \in 1..emitted : Str(ToString(n)) = ev.data[2]

\* C16: the notifications handed to a channel are in emission order: an
\* event emitted later never stands before one emitted earlier.
C16_NotificationsInEmissionOrder ==
    \A c \in DOMAIN delivered :
        \A i, j \in 1..Len(delivered[c]) :
            i < j => NumOf(delivered[c][i]) < NumOf(delivered[c][j])

\* C16 witness: the first event went to one channel, the next two to the
\* channel connected after it
C16_Witness ==
    /\ Len(delivered) = 2
    /\ Len(delivered[1]) = 1
    /\ Len(delivered[2]) = 2

-----------------------------------------------------------------------------
(* Streams and shutdown: claims C17 - C20 *)

\* C17: a GET without a session id or with one that is not registered is
\* answered with HTTP 400 and leaves the session map and every channel
\* unchanged; any other GET is handed to the channel registered under its
\* id, the only channel a stream can be attached to by it.
C17_StreamOnlyForRegisteredSession ==
    [][\A s \in Uuids \cup {0} :
          GetArrive(s)
          => /\ transports' = transports
             /\ IF s = 0 \/ s \notin DOMAIN transports
                THEN /\ lastResp' = Response(400, 0, 0)
                     /\ channels' = channels
                ELSE /\ lastResp'.ch = transports[s]
                     /\ lastResp'.status # 400
                     /\ \A c \in 1..Len(channels) :
                           c # transports[s] => channels'[c] = channels[c]]_vars

\* C17 witness: a session has its stream attached and a GET has just been
\* answered with 400
C17_Witness ==
    /\ lastResp = Response(400, 0, 0)
    /\ \E s \in DOMAIN transports : channels[transports[s]].stream

\* C18: closing a channel removes its own session from the session map and
\* no other entry, and the map it leaves is one that a further close of the
\* same channel would leave unchanged; a close on the cleared map leaves it
\* empty.
C18_CloseDeregistersIdempotently ==
    [][/\ \A c \in 1..Len(channels) :
             StopCloseOne(c, TRUE)
             => LET sid == channels[c].sessionId IN
                /\ sid \notin DOMAIN transports'
                /\ \A s \in DOMAIN transports \ {sid} :
                      s \in DOMAIN transports' /\ transports'[s] = transports[s]
                /\ OnClose(transports', sid) = transports'
       /\ StopFinish
             => \A c \in 1..Len(channels) :
                   OnClose(transports', channels[c].sessionId) = <<>>]_vars

\* C18 witness: of two registered sessions one has been closed and the
\* other is still registered
C18_Witness ==
    /\ stopPhase = "closingTransports"
    /\ Cardinality(DOMAIN transports) = 1
    /\ \E c \in 1..Len(channels) :
          channels[c].closed /\ channels[c].sessionId \notin DOMAIN transports

\* C19: when stop() completes, the session map is empty and every channel
\* that had been registered was asked to close, whether or not the close of
\* another channel raised.
C19_StopClosesEveryChannel ==
    [][StopFinish
       => /\ transports' = <<>>
          /\ \A c \in 1..Len(channels) :
                channels[c].sessionId # 0 => channels'[c].closeAsked]_vars

\* C19 witness: stop() has completed; the close of one registered channel
\* raised and the other registered channel was closed
C19_Witness ==
    /\ stopPhase = "stopped"
    /\ transports = <<>>
    /\ \E c, d \in 1..Len(channels) :
          /\ channels[c].sessionId # 0 /\ channels[c].closeAsked /\ ~channels[c].closed
          /\ channels[d].sessionId # 0 /\ channels[d].closed

\* C20: once stop() has completed, no collaborator event changes the cache
\* of the stopped instance: no step taken after it updates a record.
C20_NoIngestionAfterStop ==
    [][stopPhase = "stopped" => taskStateCache' = taskStateCache]_vars

\* C21 (as the specification states it): whatever sequence of starts, stops
\* and restarts has run, the collaborator's emitter holds at most one live
\* handler set of the event forwarder, so one event is ingested and sent once
C21_SubscribedOnce == handlers <= 1

\* C22 (as the specification states it): once stop() has begun, no step adds
\* an entry to the session map
C22_NoSessionAfterStopBegan ==
    [][stopPhase # "running" => DOMAIN transports' \subseteq DOMAIN transports]_vars

\* C23: a capability operation of any group that is called while the handle
\* of its client is not set or the collaborator is not active fails with the
\* client's "not available" error and calls no function of the collaborator.
C23_UnavailableFailsWithoutCall ==
    [][\A op \in Ops, outcome \in CollabErrors \cup {""} :
          (ToolCall(op, outcome) /\ (~extension[GroupOf(op)] \/ ~rooCode.isActive))
          => /\ lastTool'.error = NotAvailable(GroupOf(op))
             /\ lastTool'.isError
             /\ ~lastTool'.called]_vars

\* C23 witness: the task client holds the handle of a collaborator that is
\* installed but not active, and sendMessage was refused
C23_Witness ==
    /\ extension["task"]
    /\ ~rooCode.isActive
    /\ lastTool.op = "sendMessage"
    /\ lastTool.error = NotAvailable("task")
    /\ ~lastTool.called

\* C24 (as the specification states it): after roocode_initialize has
\* reported success, every capability operation of every group reaches the
\* collaborator
C24_AvailableAfterInitialize ==
    [][\A op \in Ops, outcome \in CollabErrors \cup {""} :
          (initialized /\ ToolCall(op, outcome)) => lastTool'.called]_vars

\* C25: when the collaborator's function raises, the tool call fails with
\* exactly the error that was raised and is reported as an error.
C25_CollaboratorErrorPropagates ==
    lastTool.raised # "" => (lastTool.error = lastTool.raised /\ lastTool.isError)

\* C25 witness: startNewTask reached the collaborator, which raised
C25_Witness ==
    /\ lastTool.op = "startNewTask"
    /\ lastTool.called
    /\ lastTool.raised = "E1"
    /\ lastTool.isError

\* C26 (as the specification states it): when the port cannot be bound,
\* start() rejects
C26_BindFailureRejectsStart ==
    stopPhase = "unbound" => startOutcome = "rejected"

\* C27 (as the specification states it): a request whose handling raises on
\* a registered session closes the channel and removes the session
C27_TransportErrorTearsDown ==
    [][\A sessionId \in Uuids, headersSent \in BOOLEAN :
          PostTransportError(sessionId, headersSent)
          => /\ sessionId \notin DOMAIN transports'
             /\ channels'[transports[sessionId]].closed]_vars

\* C28 (as the specification states it): an event whose first argument
\* carries no task id leaves the cache as it is and is still handed to the
\* connected channel as a notification
C28_NoTaskIdIgnoredButForwarded ==
    [][\A e \in FrameEvents, f \in NoIdArgs :
          CacheEmit(e, f)
          => /\ taskStateCache' = taskStateCache
             /\ connected # 0
                => delivered'[connected] =
                     Append(delivered[connected],
                            [event |-> e, data |-> <<f, Payload(e)>>])]_vars

\* C29: an event whose name is not in the transition table leaves every
\* record of the cache in place with the status it had.
C29_UnlistedEventKeepsStatus ==
    [][\A e \in UnlistedEvents :
          CacheEmit(e, Str("T1"))
          => \A k \in CacheKeys(taskStateCache) :
                /\ CacheHas(taskStateCache', k)
                /\ CacheGet(taskStateCache', k).status
                     = CacheGet(taskStateCache, k).status]_vars

\* C29 witness: the record of T1 is completed and holds a message that came
\* after the completion
C29_Witness ==
    /\ CacheHas(taskStateCache, Str("T1"))
    /\ CacheGet(taskStateCache, Str("T1")).status = "completed"
    /\ terminalSince[Str("T1")] >= 0
    /\ Len(CacheGet(taskStateCache, Str("T1")).messages) = 1
    /\ CacheGet(taskStateCache, Str("T1")).messages[1].timestamp
         > terminalSince[Str("T1")]

\* C30: the message event adds exactly one entry, with the payload of the
\* event, to the history of its task and keeps the status. In the life of
\* T1 (taskCreated, taskActive, message "build started", taskCompleted) a
\* poll of T1 after the message shows status active with the one message
\* "build started", a poll after taskCompleted shows status completed, and a
\* poll after the purge timer has run answers not-found; the timer is due
\* exactly when the retention window ends and does not run before.
C30_MessageScenario ==
    [][/\ ScenarioMessage
          => /\ ScenarioMessages' =
                  Append(ScenarioMessages,
                         [timestamp |-> now, content |-> Str("build started")])
             /\ ScenarioStatus' = ScenarioStatus
             /\ Len(taskStateCache') = Len(taskStateCache)
       /\ Poll(Str("T1"))
          => LET ev == lastStatusEvent[Str("T1")] IN
             /\ (ev.current = "taskActive" /\ emitted = 1)
                => /\ lastPoll'.kind = "task"
                   /\ lastPoll'.tasks[1].status = "active"
                   /\ Len(lastPoll'.tasks[1].recentMessages) = 1
                   /\ lastPoll'.tasks[1].recentMessages[1].content
                        = Str("build started")
             /\ ev.current = "taskCompleted"
                => /\ lastPoll'.kind = "task"
                   /\ lastPoll'.tasks[1].status = "completed"
                   /\ Len(lastPoll'.tasks[1].recentMessages) = 1
             /\ (ev.ever = "taskCompleted" /\ timers = <<>>)
                => lastPoll'.kind = "notFound"
       /\ \A i \in 1..Len(timers') :
             timers'[i].due = terminalSince'[Str("T1")] + RetentionMs
       /\ Purge => now >= terminalSince[Str("T1")] + RetentionMs]_vars

\* C30 witness: the four events were emitted, the window has passed and the
\* poll of T1 answered not-found
C30_Witness ==
    /\ emitted = 1
    /\ lastStatusEvent[Str("T1")].ever = "taskCompleted"
    /\ now >= RetentionMs
    /\ lastPoll.kind = "notFound"

-----------------------------------------------------------------------------
(* Readers of the cache: claim C31, checked under SpecReaders *)

\* C31: getTaskState (a poll), getStats, sendTestEvent with its
\* forwardEventToClients, and dispose (the end of stop()) leave the cache as
\* it is: the same records with the same status, lastUpdate and messages. A
\* step that changes the cache is the ingestion of an event or a purge.
C31_CacheChangedOnlyByIngestion ==
    [][/\ (\/ \E a \in {Undefined, Str("T1")} : Poll(a)
           \/ GetStats
           \/ SendTestEvent("message", TestEvent)
           \/ StopFinish)
          => taskStateCache' = taskStateCache
       /\ taskStateCache' # taskStateCache
          => \/ \E e \in ReaderEvents : CacheEmit(e, Str("T1"))
             \/ Purge]_vars

\* C31 witness: a test event for T1 reached the client's channel and the
\* cache holds no record of T1
C31_Witness ==
    /\ Len(delivered) = 1
    /\ Len(delivered[1]) = 1
    /\ delivered[1][1].data = TestEvent
    /\ taskStateCache = <<>>

-----------------------------------------------------------------------------
(* Collaborator discovery: claim C32, checked under SpecDiscovery *)

\* C32 (as the specification states it): initialize() of each of the three
\* clients reports success exactly when the collaborator is found, active
\* after the activation and exposes its exports
C32_InitializeSucceedsOnlyIfUsable ==
    [][\A g \in Groups, activates, exports \in BOOLEAN :
          ClientInitialize(g, activates, exports)
          => (lastTool'.ok <=> (rooCode'.found /\ rooCode'.isActive
                                  /\ rooCode'.exports))]_vars

-----------------------------------------------------------------------------
(* Request failures: claim C33, checked under SpecErrors *)

C34_SessionOnlyForInitialize ==
    [][/\ PostArrive(0, "call")
          => /\ transports' = transports
             /\ \A s \in DOMAIN transports :
                   channels'[transports[s]] = channels[transports[s]]
       /\ \A h \in inflight :
             (h.body = "call" /\ PostResume(h))
             => /\ transports' = transports
                /\ lastResp' = Response(400, -32000, h.ch)
                /\ \A s \in DOMAIN transports :
                      channels'[transports[s]] = channels[transports[s]]
       /\ ~(DOMAIN transports' \subseteq DOMAIN transports)
          => \E h \in inflight : h.body = "initialize" /\ PostResume(h)]_vars

\* C34 witness: the session of the first channel is registered and a second
\* request without session header, not an initialize, was refused on a
\* channel of its own that stays outside the map
C34_Witness ==
    /\ Len(channels) = 2
    /\ \E s \in DOMAIN transports : transports[s] = 1
    /\ ~channels[2].initialized
    /\ lastResp = Response(400, -32000, 2)
    /\ inflight = {}

-----------------------------------------------------------------------------
(* Status values: claim C35, checked under SpecUnlisted *)

Statuses == {"unknown", "created", "started", "active", "interactive", "idle",
             "completed", "aborted", "resumable"}

\* C35: the status of every cached record is one of the nine status values,
\* and it is unknown exactly when no event of the transition table has been
\* ingested for the task since its record was inserted.
C35_StatusValues ==
    \A i \in 1..Len(taskStateCache) :
        LET r == taskStateCache[i] IN
        /\ r.status \in Statuses
        /\ r.status = "unknown" <=> lastStatusEvent[r.taskId].current = ""

\* C35 witness: the record of T1 was inserted by a message and is unknown,
\* next to the completed record of T2
C35_Witness ==
    /\ CacheHas(taskStateCache, Str("T1"))
    /\ CacheGet(taskStateCache, Str("T1")).status = "unknown"
    /\ Len(CacheGet(taskStateCache, Str("T1")).messages) = 1
    /\ CacheHas(taskStateCache, Str("T2"))
    /\ CacheGet(taskStateCache, Str("T2")).status = "completed"

-----------------------------------------------------------------------------
(* Shutdown: claim C36 under SpecStopLive, claim C37 under SpecStop *)

\* C36: a stop() whose race is pending always completes: the session map is
\* emptied, the shared McpServer is disconnected and the call resolves; and
\* when it goes on to the channels while a stream is still open or a request
\* still handled, so that the close callback cannot have run, it does so
\* because the timeout branch settled the race.
C36_StopTerminates ==
    /\ (stopCall.result = "pending")
          ~> (/\ stopPhase = "stopped"
              /\ stopCall.result = "resolved"
              /\ transports = <<>>
              /\ connected = 0)
    /\ [][(/\ ~Drained(channels, inflight)
           /\ \/ \E c \in 1..Len(channels), ok \in BOOLEAN : StopCloseOne(c, ok)
              \/ StopFinish)
          => stopCall.race = "timedOut"]_vars

\* C36 witness: stop() has completed after its timeout settled the race,
\* and it closed a channel
C36_Witness ==
    /\ stopPhase = "stopped"
    /\ stopCall.race = "timedOut"
    /\ stopCall.result = "resolved"
    /\ transports = <<>>
    /\ \E c \in 1..Len(channels) : channels[c].closed

\* C37: a stop() whose close reports an error is rejected and leaves the
\* session map, every channel, the transport of the shared McpServer and the
\* subscriptions of the event forwarder as they were.
C37_CloseErrorSkipsTeardown ==
    [][StopNotRunning
       => /\ stopCall'.notRunning = "rejected"
          /\ transports' = transports
          /\ channels' = channels
          /\ connected' = connected
          /\ handlers' = handlers
          /\ stopPhase' = stopPhase]_vars

\* C37 witness: a stop() has been rejected while a session was registered
\* whose channel is still open, the stop() before it waiting for its race
C37_Witness ==
    /\ stopCall.notRunning = "rejected"
    /\ stopPhase = "closing"
    /\ stopCall.race = "pending"
    /\ \E s \in DOMAIN transports :
          /\ ~channels[transports[s]].closeAsked
          /\ ~channels[transports[s]].closed

\* C37, the case of the example: start() could not bind the port and the
\* stop() of that instance has been rejected
C37_UnboundWitness ==
    /\ stopPhase = "unbound"
    /\ stopCall.notRunning = "rejected"

-----------------------------------------------------------------------------
(* The extension: claim C38 under SpecToggle, claim C39 under SpecExtension *)

\* C38: whenever no toggle operation is in progress, serverEnabled is true
\* if and only if mcpServer names an instance that has been started.
C38_EnabledIffStarted ==
    (\A c \in calls : c.op \notin ToggleOps)
    => (serverEnabled
        <=> (mcpServer # 0 /\ instances[mcpServer].state = "started"))

\* C39: at most one instance is started and not yet stopped, and an instance
\* that is started is the one mcpServer names.
C39_OneStartedAndReferenced ==
    /\ Cardinality(Listening(instances)) <= 1
    /\ \A i \in Listening(instances) : mcpServer = i

-----------------------------------------------------------------------------
(* The SSE forwarder: claim C40, checked under SpecSse *)

\* C40: the client table holds exactly the clients that connected and have
\* not since closed, errored, failed a write or been ended by dispose(); the
\* first thing written to a client is the 'connected' event, which is
\* written once; a forward removes the clients whose write raised and writes
\* the event to every other client of the table; after dispose() the table
\* is empty.
C40_ClientTable ==
    /\ [](/\ eventClients = {n \in 1..Len(sseClients) : sseClients[n].status = "open"}
          /\ \A n \in 1..Len(sseClients) :
                LET log == sseClients[n].log IN
                /\ log # <<>> => Head(log) = "connected"
                /\ \A k \in 2..Len(log) : log[k] # "connected")
    /\ [][/\ \A eventName \in SseEventNames, failing \in SUBSET eventClients :
                ForwardEventToSseClients(eventName, failing)
                => /\ eventClients' = eventClients \ failing
                   /\ \A n \in eventClients \ failing :
                         sseClients'[n].log = Append(sseClients[n].log, eventName)
          /\ SseDispose => eventClients' = {}]_vars

\* C40 witness: of two connected clients the first failed a write and is
\* out of the table, and the one after it is in the table with the
\* 'connected' event and that forwarded event written
C40_Witness ==
    /\ Len(sseClients) = 2
    /\ sseClients[1].status = "failedWrite"
    /\ sseClients[1].log = <<"connected">>
    /\ eventClients = {2}
    /\ sseClients[2].log = <<"connected", "taskCreated">>

====
